---------------------------- MODULE Spec2Model ----------------------------
(***************************************************************************)
(* A model of the watermarking service of flow-app-watermark:              *)
(* lambda_function.py (the request handler and its stages), s3_util.py     *)
(* (URL parsing, cache lookup, upload) and process_util.py (the external   *)
(* commands).                                                              *)
(*                                                                         *)
(* Text is modelled as a sequence of tokens: a token is a run of           *)
(* characters none of the modelled string operations looks inside          *)
(* ("flowgpt", "mp4"), or one of the delimiters they do look for           *)
(* (".", "/", "//", "%", "_", "-").  A percent escape is the token "%"     *)
(* followed by the token of its two hex digits.                            *)
(***************************************************************************)
EXTENDS Integers, Sequences, FiniteSets, TLC

(***************************************************************************)
(* Bounds of the model.                                                    *)
(***************************************************************************)
\* Number of handler invocations (jobs) that may run, sequentially or
\* concurrently.
NumJobs == 2

Jobs == 1..NumJobs

(***************************************************************************)
(* Module-level configuration of lambda_function.py.                       *)
(***************************************************************************)
OUTPUT_BUCKET == "flow-app-media"
OUTPUT_PREFIX == "processed"
SUPPORTED_FORMATS == { <<".", "mp4">>, <<".", "mov">>, <<".", "avi">> }

\* The host substring parse_request_body rewrites, and what it writes.
ALIAS_HOST == <<"image-cdn", ".", "flowgpt", ".", "com">>
CANONICAL_HOST == <<"flow-app-media", ".", "s3", ".", "amazonaws", ".", "com">>

(***************************************************************************)
(* String operations.                                                      *)
(***************************************************************************)
\* The escapes the model's URLs use: hex digits -> the character they encode.
HexPairs == {"2E", "25"}
HexDecode(h) == IF h = "2E" THEN "." ELSE "%"

\* urllib.parse.unquote: one left-to-right pass; every "%" followed by two
\* hex digits becomes the character, anything else is copied.  The decoded
\* character is not scanned again.
RECURSIVE unquote(_)
unquote(s) ==
    IF s = << >> THEN << >>
    ELSE IF Len(s) >= 2 /\ s[1] = "%" /\ s[2] \in HexPairs
         THEN <<HexDecode(s[2])>> \o unquote(SubSeq(s, 3, Len(s)))
         ELSE <<s[1]>> \o unquote(Tail(s))

\* old in s  (substring test)
RECURSIVE Contains(_, _)
Contains(s, old) ==
    IF Len(s) < Len(old) THEN FALSE
    ELSE IF SubSeq(s, 1, Len(old)) = old THEN TRUE
         ELSE Contains(Tail(s), old)

\* str.replace(old, new): every non-overlapping occurrence, left to right.
RECURSIVE StrReplace(_, _, _)
StrReplace(s, old, new) ==
    IF Len(s) < Len(old) THEN s
    ELSE IF SubSeq(s, 1, Len(old)) = old
         THEN new \o StrReplace(SubSeq(s, Len(old) + 1, Len(s)), old, new)
         ELSE <<s[1]>> \o StrReplace(Tail(s), old, new)

\* str.startswith, as the storage listing's Prefix filter applies it.
StartsWith(s, p) == Len(s) >= Len(p) /\ SubSeq(s, 1, Len(p)) = p

\* str.lower on one token (the only upper-case token of the model is "MP4").
Lower(tok) == IF tok = "MP4" THEN "mp4" ELSE tok

\* Index of the last occurrence of tok in s, 0 if none.
LastIndexOf(s, tok) ==
    LET hits == { i \in 1..Len(s) : s[i] = tok }
    IN  IF hits = {} THEN 0 ELSE CHOOSE i \in hits : \A k \in hits : k <= i

\* Index of the first occurrence of tok in s at or after from, 0 if none.
FirstIndexOf(s, tok, from) ==
    LET hits == { i \in from..Len(s) : s[i] = tok }
    IN  IF hits = {} THEN 0 ELSE CHOOSE i \in hits : \A k \in hits : i <= k

(***************************************************************************)
(* s3_util.parse_s3_url and the handler's extension test.                  *)
(***************************************************************************)
\* urlparse: a network location exists only after "scheme://"; it runs to
\* the next "/".  Without it the whole text is the path.
HasNetloc(url) == Len(url) >= 2 /\ url[1] = "https:" /\ url[2] = "//"

Netloc(url) ==
    IF ~HasNetloc(url) THEN << >>
    ELSE LET slash == FirstIndexOf(url, "/", 3)
         IN  IF slash = 0 THEN SubSeq(url, 3, Len(url))
             ELSE SubSeq(url, 3, slash - 1)

UrlPath(url) ==
    IF ~HasNetloc(url) THEN url
    ELSE LET slash == FirstIndexOf(url, "/", 3)
         IN  IF slash = 0 THEN << >> ELSE SubSeq(url, slash, Len(url))

\* path.lstrip('/')
RECURSIVE LStripSlash(_)
LStripSlash(s) ==
    IF s # << >> /\ s[1] = "/" THEN LStripSlash(Tail(s)) ELSE s

\* parse_s3_url: bucket = netloc.split('.')[0], key = path.lstrip('/')
parse_s3_url(url) ==
    LET netloc == Netloc(url)
        dot == FirstIndexOf(netloc, ".", 1)
        label == IF dot = 0 THEN netloc ELSE SubSeq(netloc, 1, dot - 1)
    IN  [bucket |-> IF label = << >> THEN "" ELSE label[1],
         key |-> LStripSlash(UrlPath(url))]

\* Path(key).suffix.lower(): the last "." of the last path component and
\* what follows it, unless the component starts or ends with that ".".
Suffix(key) ==
    LET name == SubSeq(key, LastIndexOf(key, "/") + 1, Len(key))
        dot == LastIndexOf(name, ".")
    IN  IF dot <= 1 \/ dot = Len(name) THEN << >>
        ELSE [i \in 1..(Len(name) - dot + 1) |-> Lower(name[dot + i - 1])]

(***************************************************************************)
(* Request parsing and the cache key.                                      *)
(***************************************************************************)
\* parse_request_body, lines 225-229: the alias host is rewritten in the
\* text as received, and the result is percent-decoded.
NormalizeUrl(video_url) ==
    unquote(IF Contains(video_url, ALIAS_HOST)
            THEN StrReplace(video_url, ALIAS_HOST, CANONICAL_HOST)
            ELSE video_url)

\* get_video_hash: md5 of the text.  md5 is modelled as injective: the
\* digest is the text itself between two tokens no URL holds.
get_video_hash(video_url) == <<"md5(">> \o video_url \o <<")">>

(***************************************************************************)
(* State.                                                                  *)
(*                                                                         *)
(* job[j] holds the locals of one invocation of lambda_handler; fs is the  *)
(* temp directory (path -> content), storage the output bucket             *)
(* (key -> content).  DISABLE_CACHE and CLEANUP_TEMP_FILES are the two     *)
(* environment flags the handler branches on; they are read once at import *)
(* and never change.  clip is the media one run of the pipeline works on:  *)
(* the streams of the source, of the files made from it, the watermark     *)
(* raster and the overlay's position in the frame being encoded.           *)
(***************************************************************************)
VARIABLES job, fs, storage, DISABLE_CACHE, CLEANUP_TEMP_FILES, clip

vars == <<job, fs, storage, DISABLE_CACHE, CLEANUP_TEMP_FILES, clip>>

\* Python's None / the empty text.
NONE == << >>

\* The content of a media file: the source video its picture derives from,
\* and the source video whose stream parameters its outro was built from.
Media(video, outro) == [video |-> video, outro |-> outro]

Range(s) == { s[i] : i \in 1..Len(s) }

\* Writing a file or an object creates or replaces it.
Write(f, p, c) == [q \in DOMAIN f \cup {p} |-> IF q = p THEN c ELSE f[q]]
Remove(f, ps) == [q \in DOMAIN f \ ps |-> f[q]]

(***************************************************************************)
(* Requests.                                                               *)
(***************************************************************************)
Url(host, name, ext) == <<"https:", "//">> \o host \o <<"/", name>> \o ext

URL_V == Url(CANONICAL_HOST, "v", <<".", "mp4">>)
URL_W == Url(CANONICAL_HOST, "w", <<".", "mp4">>)
\* the alias host, and the alias host with its first "." percent-encoded
URL_V_ALIAS == Url(ALIAS_HOST, "v", <<".", "mp4">>)
URL_V_ALIAS_ENC ==
    Url(<<"image-cdn", "%", "2E", "flowgpt", ".", "com">>, "v", <<".", "mp4">>)
\* a percent-encoded character in the path, and a doubly encoded one
URL_V_ENC == Url(CANONICAL_HOST, "v", <<"%", "2E", "mp4">>)
URL_V_ENC2 == Url(CANONICAL_HOST, "v", <<"%", "25", "2E", "mp4">>)
URL_V_UPPER == Url(CANONICAL_HOST, "v", <<".", "MP4">>)
\* an unsupported extension, no extension, and a text that is no URL
URL_WEBM == Url(CANONICAL_HOST, "v", <<".", "webm">>)
URL_NOEXT == <<"https:", "//">> \o CANONICAL_HOST \o <<"/", "v">>
URL_NOHOST == <<"v", ".", "mp4">>

RequestUrls ==
    { URL_V, URL_W, URL_V_ALIAS, URL_V_ALIAS_ENC, URL_V_ENC, URL_V_ENC2,
      URL_V_UPPER, URL_WEBM, URL_NOEXT, URL_NOHOST }

\* event['body']: absent (or None, or ''), a dict, or a text that is JSON
\* for an object, JSON for an array, or no JSON at all.
Body(form, json, hasVideoUrl, videoUrl, hasUsername) ==
    [form |-> form, json |-> json, hasVideoUrl |-> hasVideoUrl,
     videoUrl |-> videoUrl, hasUsername |-> hasUsername]

NoBody == Body("none", "none", FALSE, NONE, FALSE)

ObjectBodies ==
    { Body(form, "object", TRUE, u, FALSE) :
          form \in {"dict", "str"}, u \in RequestUrls \cup {NONE} }
    \cup { Body(form, "object", FALSE, NONE, hasUsername) :
               form \in {"dict", "str"}, hasUsername \in BOOLEAN }

Bodies ==
    {NoBody} \cup ObjectBodies
    \cup { Body("str", "array", FALSE, NONE, FALSE),
           Body("str", "invalid", FALSE, NONE, FALSE) }

\* event.get('isBase64Encoded'): the key is absent, true or false.
Events ==
    { [body |-> b, isBase64Encoded |-> e] :
          b \in Bodies, e \in {"absent", "true", "false"} }

\* A well-formed request for url, as app.py and a direct invocation with a
\* dict body make it.
EventFor(url) ==
    [body |-> Body("dict", "object", TRUE, url, FALSE), isBase64Encoded |-> "absent"]

NoEvent == [body |-> NoBody, isBase64Encoded |-> "absent"]

(***************************************************************************)
(* Responses.                                                              *)
(***************************************************************************)
NoResponse == [statusCode |-> 0, body |-> [message |-> NONE]]

Resp400(message) == [statusCode |-> 400, body |-> [message |-> message]]

Resp500(error) ==
    [statusCode |-> 500,
     body |-> [message |-> <<"Processing failed">>, error |-> error]]

RespCached(url) ==
    [statusCode |-> 200,
     body |-> [message |-> <<"Video was already processed">>,
               url |-> url, cached |-> TRUE]]

RespProcessed(url, processing_times) ==
    [statusCode |-> 200,
     body |-> [message |-> <<"Video processed successfully with outro">>,
               url |-> url, cached |-> FALSE,
               processingTime |-> processing_times]]

\* f"https://{bucket}.s3.amazonaws.com/{key}"
ObjectUrl(bucket, key) ==
    <<"https:", "//", bucket, ".", "s3", ".", "amazonaws", ".", "com", "/">> \o key

(***************************************************************************)
(* parse_request_body, and the handler's own second decoding of the body   *)
(* (lines 329-332), which raises exactly when the first does.              *)
(***************************************************************************)
\* not event.get('isBase64Encoded', True)
DecodesJson(event) == event.isBase64Encoded = "false"

\* not event.get('body'): no body, an empty text, or an empty dict
BodyIsFalsy(b) ==
    \/ b.form = "none"
    \/ b.form = "dict" /\ ~b.hasVideoUrl /\ ~b.hasUsername

Parsed(kind, text, url) == [kind |-> kind, text |-> text, url |-> url]

\* kind "ok" with the normalized URL, "ValueError" (which the handler
\* answers with 400 and str(e)), or "Exception" (any other exception, which
\* reaches the handler's outer except).
parse_request_body(event) ==
    LET b == event.body
    IN  IF BodyIsFalsy(b)
        THEN Parsed("ValueError", <<"Missing request body">>, NONE)
        ELSE IF DecodesJson(event) /\ b.form = "dict"
        THEN \* json.loads of a dict
             Parsed("Exception", <<"TypeError: the JSON object must be str">>, NONE)
        ELSE IF DecodesJson(event) /\ b.json = "invalid"
        THEN \* json.JSONDecodeError is a ValueError
             Parsed("ValueError", <<"JSONDecodeError">>, NONE)
        ELSE IF DecodesJson(event) /\ b.json = "array"
        THEN Parsed("Exception", <<"AttributeError: 'list' has no attribute 'get'">>, NONE)
        ELSE IF ~DecodesJson(event) /\ b.form = "str"
        THEN \* the text is never decoded: body.get on a str
             Parsed("Exception", <<"AttributeError: 'str' has no attribute 'get'">>, NONE)
        ELSE IF ~b.hasVideoUrl \/ b.videoUrl = NONE
        THEN Parsed("ValueError", <<"Missing 'videoUrl' in request body">>, NONE)
        ELSE Parsed("ok", NONE, NormalizeUrl(b.videoUrl))

(***************************************************************************)
(* Paths and keys.                                                         *)
(***************************************************************************)
Ext(video_url) == Suffix(parse_s3_url(video_url).key)

\* TEMP_DIR / f"{file_id}_<what>{ext}"
TempPath(video_url, what) ==
    get_video_hash(video_url) \o <<"_", what>> \o Ext(video_url)

input_file(video_url) == TempPath(video_url, "input")
preprocessed_file(video_url) == TempPath(video_url, "preprocessed")
watermarked_file(video_url) == TempPath(video_url, "watermarked")
final_output_file(video_url) == TempPath(video_url, "with_outro")
\* TEMP_DIR / f"{file_id}_watermark.png"
custom_watermark_path(video_url) ==
    get_video_hash(video_url) \o <<"_", "watermark", ".", "png">>
\* create_outro: work_dir / "outro.mp4", work_dir / "outro_with_video.mp4"
outro_path == <<"outro", ".", "mp4">>
outro_with_video == <<"outro_with_video", ".", "mp4">>
\* concat_videos: TEMP_DIR / "concat_list.txt"
concat_file == <<"concat_list", ".", "txt">>

\* uuid.uuid4(): a value no other invocation draws.
uuid4(j) == "uuid4#" \o ToString(j)

\* A variant of the key without the leading uuid.
OutputKeyNoUuid(j, video_url) ==
    <<OUTPUT_PREFIX, "/">> \o get_video_hash(video_url)
        \o <<"_", "with_outro">> \o Ext(video_url)

\* f"{uuid.uuid4()}-{OUTPUT_PREFIX}/{video_hash}_with_outro{ext}"
OutputKey(j, video_url) ==
    <<uuid4(j), "-", OUTPUT_PREFIX, "/">> \o get_video_hash(video_url)
        \o <<"_", "with_outro">> \o Ext(video_url)

\* check_processed_video's listing prefix: f"{prefix}/{video_hash}_"
LookupPrefix(prefix, video_hash) == <<prefix, "/">> \o video_hash \o <<"_">>

\* A variant of the lookup in which an error of the listing is not a miss:
\* the lookup answers with the error's text.
check_processed_video_Uncaught(bucket, prefix, video_hash, listing_raises) ==
    LET found == { k \in DOMAIN storage :
                       StartsWith(k, <<prefix, "/">> \o video_hash \o <<"_">>) }
    IN  IF listing_raises THEN {<<"Error checking for processed video">>}
        ELSE IF found = {} THEN {NONE}
        ELSE { ObjectUrl(bucket, k) : k \in found }

\* A variant of the listing without the Prefix filter.
check_processed_video_NoPrefix(bucket, prefix, video_hash, listing_raises) ==
    IF listing_raises \/ DOMAIN storage = {} THEN {NONE}
    ELSE { ObjectUrl(bucket, k) : k \in DOMAIN storage }

\* check_processed_video: what it can return.  A listing that raises is
\* caught and gives None; otherwise the URL of the first listed object, and
\* nothing is assumed about which object the listing puts first.
check_processed_video(bucket, prefix, video_hash, listing_raises) ==
    LET found == { k \in DOMAIN storage :
                       StartsWith(k, LookupPrefix(prefix, video_hash)) }
    IN  IF listing_raises \/ found = {} THEN {NONE}
        ELSE { ObjectUrl(bucket, k) : k \in found }

(***************************************************************************)
(* One invocation of lambda_handler.                                       *)
(*                                                                         *)
(* pc is the handler's position: "idle" before the invocation, then the    *)
(* blocking call it is about to make, then "done".  event, video_url,      *)
(* output_key, temp_files, processing_times and video_info are the         *)
(* handler's locals; response is what it returns.  The other fields record *)
(* history: trace the calls made, touched the temp paths created, read,    *)
(* overwritten or deleted, injected whether a call failed for a reason of  *)
(* its own (not for a file another job removed or left), doneBefore the    *)
(* invocations that had returned when this one began, unlink_fails the     *)
(* temp paths whose unlink raises.                                         *)
(***************************************************************************)
IdleJob ==
    [pc |-> "idle", event |-> NoEvent, video_url |-> NONE, output_key |-> NONE,
     temp_files |-> << >>, processing_times |-> {}, video_info |-> NONE,
     response |-> NoResponse, trace |-> {}, touched |-> {},
     injected |-> FALSE, doneBefore |-> {}, unlink_fails |-> {}]

\* A variant of the finally block with the try around the whole loop: the
\* first unlink that raises ends the loop.
CleanupStopsAtError(f, r) ==
    LET raising == { i \in 1..Len(r.temp_files) :
                         /\ r.temp_files[i] \in DOMAIN f
                         /\ r.temp_files[i] \in r.unlink_fails }
        stop == IF raising = {} THEN Len(r.temp_files) + 1
                ELSE CHOOSE i \in raising : \A k \in raising : i <= k
    IN  IF CLEANUP_TEMP_FILES
        THEN Remove(f, { r.temp_files[i] : i \in 1..(stop - 1) })
        ELSE f

\* The finally block of the invocation with locals r: with
\* CLEANUP_TEMP_FILES, every path of temp_files that exists is unlinked, each
\* in a try of its own; a path whose unlink raises (r.unlink_fails) stays, a
\* warning is logged and the loop goes on.
Cleanup(f, r) ==
    IF CLEANUP_TEMP_FILES
    THEN Remove(f, Range(r.temp_files) \ r.unlink_fails)
    ELSE f

Cleaned(f, temp_files) ==
    IF CLEANUP_TEMP_FILES THEN Range(temp_files) \cap DOMAIN f ELSE {}

\* return response, through the finally block
Return(r, response, f) ==
    [r EXCEPT !.pc = "done", !.response = response,
              !.touched = @ \cup Cleaned(f, r.temp_files)]

\* A variant of the except block that records the error and lets the handler
\* go on to publish what the temp directory holds.
RaiseSwallowed(r, call, error, inject, f) ==
    [r EXCEPT !.pc = "upload", !.response = Resp500(error),
              !.trace = @ \cup {call}, !.injected = @ \/ inject]

\* A variant of the except block that makes the failed call again.
RaiseRetry(r, call, error, inject, f) ==
    [r EXCEPT !.trace = @ \cup {call}, !.injected = @ \/ inject]

\* A stage raised: the outer except answers 500 with str(e).
Raise(r, call, error, inject, f) ==
    [Return(r, Resp500(error), f) EXCEPT
         !.trace = @ \cup {call}, !.injected = @ \/ inject]

\* Lines 355-377: parse_s3_url, the extension test, the temp paths and the
\* output key.  parse_s3_url raises for no text of the model.
Validate(j, r) ==
    LET ext == Ext(r.video_url)
    IN  IF ext \notin SUPPORTED_FORMATS
        THEN Return(r, Resp400(<<"Unsupported file format: ">> \o ext), fs)
        ELSE [r EXCEPT
                 !.pc = "download",
                 !.output_key = OutputKey(j, r.video_url),
                 !.temp_files = << input_file(r.video_url),
                                   preprocessed_file(r.video_url),
                                   watermarked_file(r.video_url),
                                   final_output_file(r.video_url) >>]

\* lambda_handler up to its first blocking call: the request is parsed; with
\* the cache disabled the URL is validated at once, otherwise the cache
\* lookup comes first.
Receive(j, ev) ==
    /\ job[j].pc = "idle"
    /\ \A i \in Jobs : i < j => job[i].pc # "idle"
    /\ LET p == parse_request_body(ev)
           r == [job[j] EXCEPT
                    !.event = ev,
                    !.doneBefore = { i \in Jobs : job[i].pc = "done" }]
       IN  job' = [job EXCEPT ![j] =
               CASE p.kind = "ValueError" -> Return(r, Resp400(p.text), fs)
                 [] p.kind = "Exception" -> Return(r, Resp500(p.text), fs)
                 [] OTHER ->
                      LET q == [r EXCEPT !.video_url = p.url]
                      IN  IF DISABLE_CACHE THEN Validate(j, q)
                          ELSE [q EXCEPT !.pc = "check_processed_video"]]
    /\ UNCHANGED <<fs, storage, DISABLE_CACHE, CLEANUP_TEMP_FILES, clip>>

\* Lines 342-353, then 355-377 on a miss.
CacheCheck(j) ==
    /\ job[j].pc = "check_processed_video"
    /\ \E listing_raises \in BOOLEAN :
       \E existing_url \in check_processed_video(
              OUTPUT_BUCKET, OUTPUT_PREFIX,
              get_video_hash(job[j].video_url), listing_raises) :
          LET r == [job[j] EXCEPT
                       !.trace = @ \cup {"list"}
                                   \cup (IF listing_raises THEN {"list_raised"} ELSE {})]
          IN  job' = [job EXCEPT ![j] =
                  IF existing_url # NONE
                  THEN Return(r, RespCached(existing_url), fs)
                  ELSE Validate(j, r)]
    /\ UNCHANGED <<fs, storage, DISABLE_CACHE, CLEANUP_TEMP_FILES, clip>>

(***************************************************************************)
(* The stages.  Each is one blocking call of the handler.  A call fails    *)
(* when a file it needs is missing, when ffmpeg finds its output file      *)
(* present and was not given -y, or for a reason of its own (inject: the   *)
(* network, the tool, a missing asset).  A failing tool is taken to leave  *)
(* no output file.  The exception reaches the handler's except and         *)
(* finally blocks, which run without blocking: they are part of the step.  *)
(***************************************************************************)
Advance(r, next, call, paths, times) ==
    [r EXCEPT !.pc = next, !.trace = @ \cup {call},
              !.touched = @ \cup paths,
              !.processing_times = @ \cup times]

\* download_input_video -> s3_util.download_file_from_s3
Download(j) ==
    /\ job[j].pc = "download"
    /\ \E inject \in BOOLEAN :
          LET r == job[j]
              \* boto3 refuses an empty bucket name
              can == parse_s3_url(r.video_url).bucket # ""
              dest == input_file(r.video_url)
          IN  /\ inject => can
              /\ IF can /\ ~inject
                 THEN /\ fs' = Write(fs, dest, Media(r.video_url, NONE))
                      /\ job' = [job EXCEPT ![j] =
                             Advance(r, "preprocess_video", "download",
                                     {dest}, {"download"})]
                 ELSE /\ fs' = Cleanup(fs, r)
                      /\ job' = [job EXCEPT ![j] =
                             Raise(r, "download", <<"download failed">>, inject, fs)]
    /\ UNCHANGED <<storage, DISABLE_CACHE, CLEANUP_TEMP_FILES, clip>>

\* preprocess_video: ffmpeg -i input -vf scale=-2:TARGET_HEIGHT ... -y output
Preprocess(j) ==
    /\ job[j].pc = "preprocess_video"
    /\ \E inject \in BOOLEAN :
          LET r == job[j]
              src == input_file(r.video_url)
              dest == preprocessed_file(r.video_url)
              can == src \in DOMAIN fs
          IN  /\ inject => can
              /\ IF can /\ ~inject
                 THEN /\ fs' = Write(fs, dest, fs[src])
                      /\ job' = [job EXCEPT ![j] =
                             Advance(r, "get_video_info", "preprocess_video",
                                     {src, dest}, {"preprocess"})]
                 ELSE /\ fs' = Cleanup(fs, r)
                      /\ job' = [job EXCEPT ![j] =
                             Raise(r, "preprocess_video", <<"Command failed: preprocess">>,
                                   inject, fs)]
    /\ UNCHANGED <<storage, DISABLE_CACHE, CLEANUP_TEMP_FILES, clip>>

\* get_video_info(str(preprocessed_file)): ffprobe
Probe(j) ==
    /\ job[j].pc = "get_video_info"
    /\ \E inject \in BOOLEAN :
          LET r == job[j]
              src == preprocessed_file(r.video_url)
              can == src \in DOMAIN fs
          IN  /\ inject => can
              /\ IF can /\ ~inject
                 THEN /\ fs' = fs
                      /\ job' = [job EXCEPT ![j] =
                             [Advance(r, "generate_watermark", "get_video_info",
                                      {src}, {})
                                 EXCEPT !.video_info = fs[src].video]]
                 ELSE /\ fs' = Cleanup(fs, r)
                      /\ job' = [job EXCEPT ![j] =
                             Raise(r, "get_video_info", <<"Failed to get video info">>,
                                   inject, fs)]
    /\ UNCHANGED <<storage, DISABLE_CACHE, CLEANUP_TEMP_FILES, clip>>

\* generate_watermark, and temp_files.append of its path.  Its duration is
\* not recorded.  It fails when the base image is missing.
GenerateWatermark(j) ==
    /\ job[j].pc = "generate_watermark"
    /\ \E inject \in BOOLEAN :
          LET r == job[j]
              dest == custom_watermark_path(r.video_url)
          IN  IF ~inject
              THEN /\ fs' = Write(fs, dest, Media(NONE, NONE))
                   /\ job' = [job EXCEPT ![j] =
                          [Advance(r, "add_watermark", "generate_watermark",
                                   {dest}, {})
                              EXCEPT !.temp_files = Append(@, dest)]]
              ELSE /\ fs' = Cleanup(fs, r)
                   /\ job' = [job EXCEPT ![j] =
                          Raise(r, "generate_watermark", <<"FileNotFoundError: watermark">>,
                                inject, fs)]
    /\ UNCHANGED <<storage, DISABLE_CACHE, CLEANUP_TEMP_FILES, clip>>

\* add_watermark: ffmpeg -i preprocessed -i watermark ... output  (no -y)
AddWatermark(j) ==
    /\ job[j].pc = "add_watermark"
    /\ \E inject \in BOOLEAN :
          LET r == job[j]
              src == preprocessed_file(r.video_url)
              mark == custom_watermark_path(r.video_url)
              dest == watermarked_file(r.video_url)
              can == src \in DOMAIN fs /\ mark \in DOMAIN fs /\ dest \notin DOMAIN fs
          IN  /\ inject => can
              /\ IF can /\ ~inject
                 THEN /\ fs' = Write(fs, dest, fs[src])
                      /\ job' = [job EXCEPT ![j] =
                             Advance(r, "create_outro", "add_watermark",
                                     {src, mark, dest}, {"watermark"})]
                 ELSE /\ fs' = Cleanup(fs, r)
                      /\ job' = [job EXCEPT ![j] =
                             Raise(r, "add_watermark", <<"Command failed: add_watermark">>,
                                   inject, fs)]
    /\ UNCHANGED <<storage, DISABLE_CACHE, CLEANUP_TEMP_FILES, clip>>

\* create_outro, first command: ffmpeg -f lavfi color/anullsrc ... -y
\* outro.mp4, with the stream parameters of video_info.
CreateOutroBase(j) ==
    /\ job[j].pc = "create_outro"
    /\ \E inject \in BOOLEAN :
          LET r == job[j]
          IN  IF ~inject
              THEN /\ fs' = Write(fs, outro_path, Media(NONE, r.video_info))
                   /\ job' = [job EXCEPT ![j] =
                          Advance(r, "create_outro_overlay", "create_outro",
                                  {outro_path}, {})]
              ELSE /\ fs' = Cleanup(fs, r)
                   /\ job' = [job EXCEPT ![j] =
                          Raise(r, "create_outro", <<"Command failed: outro">>,
                                inject, fs)]
    /\ UNCHANGED <<storage, DISABLE_CACHE, CLEANUP_TEMP_FILES, clip>>

\* create_outro, the rest: get_video_info(OUTRO_VIDEO_PATH), ffmpeg -i
\* outro.mp4 -i OUTRO_VIDEO_PATH ... -y outro_with_video.mp4,
\* outro_path.unlink(); then the handler's temp_files.append(outro_file).
CreateOutroOverlay(j) ==
    /\ job[j].pc = "create_outro_overlay"
    /\ \E inject \in BOOLEAN :
          LET r == job[j]
              can == outro_path \in DOMAIN fs
          IN  /\ inject => can
              /\ IF can /\ ~inject
                 THEN /\ fs' = Remove(Write(fs, outro_with_video, fs[outro_path]),
                                      {outro_path})
                      /\ job' = [job EXCEPT ![j] =
                             [Advance(r, "concat_videos", "create_outro",
                                      {outro_path, outro_with_video}, {"outro"})
                                 EXCEPT !.temp_files = Append(@, outro_with_video)]]
                 ELSE /\ fs' = Cleanup(fs, r)
                      /\ job' = [job EXCEPT ![j] =
                             Raise(r, "create_outro", <<"Command failed: outro overlay">>,
                                   inject, fs)]
    /\ UNCHANGED <<storage, DISABLE_CACHE, CLEANUP_TEMP_FILES, clip>>

\* concat_videos: the list file is written, ffmpeg -f concat -i list -c copy
\* output (no -y) runs, the list file is unlinked.
Concat(j) ==
    /\ job[j].pc = "concat_videos"
    /\ \E inject \in BOOLEAN :
          LET r == job[j]
              main == watermarked_file(r.video_url)
              dest == final_output_file(r.video_url)
              listed == Write(fs, concat_file, Media(NONE, NONE))
              can == /\ main \in DOMAIN fs
                     /\ outro_with_video \in DOMAIN fs
                     /\ dest \notin DOMAIN fs
          IN  /\ inject => can
              /\ IF can /\ ~inject
                 THEN /\ fs' = Remove(
                                 Write(listed, dest,
                                       Media(fs[main].video, fs[outro_with_video].outro)),
                                 {concat_file})
                      /\ job' = [job EXCEPT ![j] =
                             Advance(r, "upload", "concat_videos",
                                     {concat_file, main, outro_with_video, dest},
                                     {"concat"})]
                 ELSE /\ fs' = Cleanup(listed, r)
                      /\ job' = [job EXCEPT ![j] =
                             [Raise(r, "concat_videos", <<"Command failed: concat">>,
                                    inject, listed)
                                 EXCEPT !.touched = @ \cup {concat_file}]]
    /\ UNCHANGED <<storage, DISABLE_CACHE, CLEANUP_TEMP_FILES, clip>>

\* upload_output_video -> s3_util.upload_file_to_s3, and the success
\* response.  An upload to a key replaces what the key held.
Upload(j) ==
    /\ job[j].pc = "upload"
    /\ \E inject \in BOOLEAN :
          LET r == job[j]
              src == final_output_file(r.video_url)
              can == src \in DOMAIN fs
              u == Advance(r, "upload", "upload", {src}, {"upload", "total"})
          IN  /\ inject => can
              /\ fs' = Cleanup(fs, r)
              /\ IF can /\ ~inject
                 THEN /\ storage' = Write(storage, r.output_key, fs[src])
                      /\ job' = [job EXCEPT ![j] =
                             Return(u,
                                    RespProcessed(ObjectUrl(OUTPUT_BUCKET, r.output_key),
                                                  u.processing_times),
                                    fs)]
                 ELSE /\ storage' = storage
                      /\ job' = [job EXCEPT ![j] =
                             Raise(r, "upload", <<"upload failed">>, inject, fs)]
    /\ UNCHANGED <<DISABLE_CACHE, CLEANUP_TEMP_FILES, clip>>

(***************************************************************************)
(* The environment of the temp directory.                                  *)
(***************************************************************************)
\* The most temp paths of one job whose unlink raises.
MaxUnlinkFailures == 2

\* A temp path of a running job becomes one whose unlink raises (the
\* directory's permissions change, the path is replaced by a directory).
DenyUnlink(j, p) ==
    /\ job[j].pc \notin {"idle", "done"}
    /\ p \in Range(job[j].temp_files) \ job[j].unlink_fails
    /\ Cardinality(job[j].unlink_fails) < MaxUnlinkFailures
    /\ job' = [job EXCEPT ![j].unlink_fails = @ \cup {p}]
    /\ UNCHANGED <<fs, storage, DISABLE_CACHE, CLEANUP_TEMP_FILES, clip>>

(***************************************************************************)
(* The media of one run: what preprocess_video, get_video_info,            *)
(* generate_watermark, add_watermark and create_outro compute from the     *)
(* source's streams and the username.                                      *)
(***************************************************************************)
TARGET_HEIGHT == 720
WATERMARK_SIZE_PERCENT == 15
\* Read from the environment and used by no function.
POSITION_CHANGE_INTERVAL == 5
\* generate_watermark's paddings.
padding_vertical == 40
padding_horizontal == 40

\* The last second of the clip whose frame is modelled.
MaxT == 32

\* What ffprobe reports of a file: its first video stream and, when there
\* is one, its first audio stream.  r_frame_rate is the fraction "n/d".
Streams(width, height, codec_name, pix_fmt, r_frame_rate, has_audio, audio_codec, sample_rate, channel_layout) ==
    [width |-> width, height |-> height, codec_name |-> codec_name,
     pix_fmt |-> pix_fmt, r_frame_rate |-> r_frame_rate,
     has_audio |-> has_audio, audio_codec |-> audio_codec,
     sample_rate |-> sample_rate, channel_layout |-> channel_layout]

NoStreams == Streams(0, 0, "", "", <<0, 1>>, FALSE, "", "", "")

Max(a, b) == IF a >= b THEN a ELSE b

\* ffmpeg's av_rescale(a, b, c): a*b/c rounded to the nearest integer,
\* halves away from zero.
av_rescale(a, b, c) == (2 * a * b + c) \div (2 * c)

\* The scale filter's width for scale=-n:out_h : the width that keeps the
\* aspect ratio, as a multiple of n.
ScaleWidth(in_w, in_h, out_h, n) == av_rescale(out_h, in_w, in_h * n) * n

\* preprocess_video: -vf scale=-2:TARGET_HEIGHT -c:v libx264 -c:a aac, for
\* every input; frame rate, pixel format, sample rate and channel layout
\* are not set and stay the input's.
preprocess_video(s) ==
    [s EXCEPT !.width = ScaleWidth(s.width, s.height, TARGET_HEIGHT, 2),
              !.height = TARGET_HEIGHT,
              !.codec_name = "h264",
              !.audio_codec = IF s.has_audio THEN "aac" ELSE ""]

\* add_watermark: -c:v libx264 -crf 23 -c:a copy; the picture is encoded
\* again, the audio stream, when there is one, is copied.
add_watermark(s) == [s EXCEPT !.codec_name = "h264"]

\* lambda_handler, line 389
WatermarkHeight(height) == (height * WATERMARK_SIZE_PERCENT) \div 100

\* generate_watermark: the size of the raster it saves, from the measured
\* width of the text "@username" and the size of the base image.
generate_watermark(text_width, base) ==
    << Max(base[1], text_width + padding_horizontal * 2),
       base[2] + padding_vertical >>

\* The value of an overlay expression as a pixel offset: the integer part.
Trunc(n, d) == IF n >= 0 THEN n \div d ELSE -((-n) \div d)

\* add_watermark's overlay expressions, with W, H the frame and w, h the
\* scaled watermark:
\*   x = if(lt(mod(t,16),8), W-w-W*10/100, W*10/100)
\*   y = if(lt(mod(t+4,16),8), H-h-H*5/100, H*5/100)
OverlayX(t, W, w) ==
    Trunc(IF (t % 16) < 8 THEN 100 * (W - w) - 10 * W ELSE 10 * W, 100)

OverlayY(t, H, h) ==
    Trunc(IF ((t + 4) % 16) < 8 THEN 100 * (H - h) - 5 * H ELSE 5 * H, 100)

RECURSIVE GCD(_, _)
GCD(a, b) == IF b = 0 THEN a ELSE GCD(b, a % b)

\* eval(r_frame_rate): the value of the fraction, here in lowest terms.
EvalRate(r) ==
    LET g == GCD(r[1], r[2]) IN IF g = 0 THEN r ELSE <<r[1] \div g, r[2] \div g>>

\* dict.get(key, default) for a field the probe did not report.
Get(value, default) == IF value = "" THEN default ELSE value

\* A variant of create_outro that encodes with its defaults whatever the
\* probe reported.
create_outro_defaults(video_info) ==
    [width |-> video_info.width, height |-> video_info.height,
     pix_fmt |-> "yuv420p", video_codec |-> "libx264",
     framerate |-> <<30, 1>>, audio_codec |-> "aac",
     sample_rate |-> "44100", channel_layout |-> "stereo",
     has_audio |-> TRUE]

\* create_outro, lines 83-97 and 101-115: the parameters the outro is
\* encoded with.
create_outro(video_info) ==
    [width |-> video_info.width, height |-> video_info.height,
     pix_fmt |-> Get(video_info.pix_fmt, "yuv420p"),
     video_codec |-> Get(video_info.codec_name, "libx264"),
     framerate |-> EvalRate(IF video_info.r_frame_rate[1] = 0 THEN <<30, 1>>
                            ELSE video_info.r_frame_rate),
     audio_codec |-> IF video_info.has_audio
                     THEN Get(video_info.audio_codec, "aac") ELSE "aac",
     sample_rate |-> IF video_info.has_audio
                     THEN Get(video_info.sample_rate, "44100") ELSE "44100",
     \* the anullsrc input: always an audio stream, always stereo
     channel_layout |-> "stereo", has_audio |-> TRUE]

NoOutro == create_outro(NoStreams)

\* The media of a run before its first stage.
Clip(pc, ext, source, text_width, base) ==
    [pc |-> pc, ext |-> ext, source |-> source, text_width |-> text_width,
     base |-> base, preprocessed |-> NoStreams, video_info |-> NoStreams,
     watermark_height |-> 0, watermark |-> <<0, 0>>, w |-> 0,
     t |-> 0, x |-> 0, y |-> 0, watermarked |-> NoStreams,
     outro |-> NoOutro]

NoClip == Clip("none", << >>, NoStreams, 0, <<0, 0>>)

\* Source videos: landscape, portrait, very wide, small, silent and very
\* tall ones, with stereo, mono and 5.1 sound, in each supported container.
SourceVideos ==
    { [ext |-> <<".", "mp4">>,
       streams |-> Streams(1920, 1080, "h264", "yuv420p", <<30, 1>>,
                           TRUE, "aac", "44100", "stereo")],
      [ext |-> <<".", "mp4">>,
       streams |-> Streams(1080, 1920, "h264", "yuv420p", <<30000, 1001>>,
                           TRUE, "aac", "48000", "mono")],
      [ext |-> <<".", "mov">>,
       streams |-> Streams(3840, 1080, "hevc", "yuv420p10le", <<60, 1>>,
                           TRUE, "pcm_s16le", "48000", "5.1")],
      [ext |-> <<".", "avi">>,
       streams |-> Streams(640, 360, "mpeg4", "yuv420p", <<25, 1>>,
                           TRUE, "mp3", "44100", "stereo")],
      [ext |-> <<".", "mp4">>,
       streams |-> Streams(1280, 720, "h264", "yuv420p", <<24, 1>>,
                           FALSE, "", "", "")],
      [ext |-> <<".", "mp4">>,
       streams |-> Streams(1000, 1780, "h264", "yuv420p", <<30, 1>>,
                           TRUE, "aac", "44100", "stereo")],
      [ext |-> <<".", "mov">>,
       streams |-> Streams(200, 2000, "prores", "yuv422p10le", <<50, 2>>,
                           TRUE, "pcm_s16le", "48000", "stereo")] }

\* The measured width of "@username" in the 24-point font, for names from
\* two to some eighty letters; and sizes of the base watermark image.
TextWidths == {32, 120, 400, 1000}
BaseWatermarks == { <<200, 60>>, <<300, 300>> }

\* preprocess_video
ClipPreprocess ==
    /\ clip.pc = "preprocess_video"
    /\ clip' = [clip EXCEPT !.pc = "get_video_info",
                            !.preprocessed = preprocess_video(clip.source)]
    /\ UNCHANGED <<job, fs, storage, DISABLE_CACHE, CLEANUP_TEMP_FILES>>

\* get_video_info(str(preprocessed_file)) and the watermark height
ClipProbe ==
    /\ clip.pc = "get_video_info"
    /\ clip' = [clip EXCEPT
                   !.pc = "generate_watermark",
                   !.video_info = clip.preprocessed,
                   !.watermark_height = WatermarkHeight(clip.preprocessed.height)]
    /\ UNCHANGED <<job, fs, storage, DISABLE_CACHE, CLEANUP_TEMP_FILES>>

\* generate_watermark(username, custom_watermark_path)
ClipGenerateWatermark ==
    /\ clip.pc = "generate_watermark"
    /\ clip' = [clip EXCEPT
                   !.pc = "add_watermark",
                   !.watermark = generate_watermark(clip.text_width, clip.base)]
    /\ UNCHANGED <<job, fs, storage, DISABLE_CACHE, CLEANUP_TEMP_FILES>>

\* The overlay's position in the frame at second t.
AtFrame(c, t) ==
    [c EXCEPT !.t = t,
              !.x = OverlayX(t, c.preprocessed.width, c.w),
              !.y = OverlayY(t, c.preprocessed.height, c.watermark_height)]

\* add_watermark: the watermark is scaled (scale=-1:watermark_height) and
\* the first frame encoded.
ClipAddWatermark ==
    /\ clip.pc = "add_watermark"
    /\ clip' = AtFrame([clip EXCEPT
                           !.pc = "overlay",
                           !.watermarked = add_watermark(clip.preprocessed),
                           !.w = ScaleWidth(clip.watermark[1], clip.watermark[2],
                                            clip.watermark_height, 1)],
                       0)
    /\ UNCHANGED <<job, fs, storage, DISABLE_CACHE, CLEANUP_TEMP_FILES>>

\* add_watermark: the frame one second later.
ClipFrame ==
    /\ clip.pc = "overlay"
    /\ clip.t < MaxT
    /\ clip' = AtFrame(clip, clip.t + 1)
    /\ UNCHANGED <<job, fs, storage, DISABLE_CACHE, CLEANUP_TEMP_FILES>>

\* create_outro(TEMP_DIR, video_info, WATERMARK_PATH), when the clip ended.
ClipCreateOutro ==
    /\ clip.pc = "overlay"
    /\ clip' = [clip EXCEPT !.pc = "done",
                            !.outro = create_outro(clip.video_info)]
    /\ UNCHANGED <<job, fs, storage, DISABLE_CACHE, CLEANUP_TEMP_FILES>>

(***************************************************************************)
(* Specifications.                                                         *)
(***************************************************************************)
\* An object the bucket may hold before any job of the model runs: the
\* output bucket is by default the bucket the sources are read from, and
\* other writers use it.
LegacyKey ==
    <<OUTPUT_PREFIX, "/">> \o get_video_hash(URL_W) \o <<"_", "old", ".", "mp4">>

InitialStorage == Write(<< >>, LegacyKey, Media(URL_W, URL_W))

Init ==
    /\ job = [j \in Jobs |-> IdleJob]
    /\ fs = << >>
    /\ storage \in { << >>, InitialStorage }
    /\ DISABLE_CACHE \in BOOLEAN
    /\ CLEANUP_TEMP_FILES \in BOOLEAN
    /\ clip = NoClip

Stage(j) ==
    \/ CacheCheck(j)
    \/ Download(j)
    \/ Preprocess(j)
    \/ Probe(j)
    \/ GenerateWatermark(j)
    \/ AddWatermark(j)
    \/ CreateOutroBase(j)
    \/ CreateOutroOverlay(j)
    \/ Concat(j)
    \/ Upload(j)

\* Jobs run concurrently, each for a well-formed request.
PipelineEvents == { EventFor(URL_V), EventFor(URL_W) }

Next ==
    \E j \in Jobs :
        \/ \E ev \in PipelineEvents : Receive(j, ev)
        \/ Stage(j)

Spec == Init /\ [][Next]_vars

\* One job, for any request.
NextRequest ==
    \/ \E ev \in Events : Receive(1, ev)
    \/ Stage(1)

SpecRequest == Init /\ [][NextRequest]_vars

\* Requests are received and parsed, and their cache keys computed; no
\* later stage runs.
KeyEvents == { EventFor(u) : u \in RequestUrls }

NextKey == \E j \in Jobs : \E ev \in KeyEvents : Receive(j, ev)

SpecKey == Init /\ [][NextKey]_vars

\* One job for a well-formed request, in a temp directory where unlinks may
\* raise.
TempPaths ==
    UNION { Range(job[j].temp_files) : j \in Jobs }

NextCleanup ==
    \/ \E ev \in PipelineEvents : Receive(1, ev)
    \/ Stage(1)
    \/ \E p \in TempPaths : DenyUnlink(1, p)

SpecCleanup == Init /\ [][NextCleanup]_vars

\* The media of one run, for each source video, username and base image.
InitMedia ==
    /\ job = [j \in Jobs |-> IdleJob]
    /\ fs = << >>
    /\ storage = << >>
    /\ DISABLE_CACHE = TRUE
    /\ CLEANUP_TEMP_FILES = TRUE
    /\ clip \in { Clip("preprocess_video", v.ext, v.streams, text_width, base) :
                      v \in SourceVideos, text_width \in TextWidths,
                      base \in BaseWatermarks }

NextMedia ==
    \/ ClipPreprocess
    \/ ClipProbe
    \/ ClipGenerateWatermark
    \/ ClipAddWatermark
    \/ ClipFrame
    \/ ClipCreateOutro

SpecMedia == InitMedia /\ [][NextMedia]_vars

(***************************************************************************)
(* Vocabulary of the properties.                                           *)
(***************************************************************************)
Done(j) == job[j].pc = "done"

\* The calls that run the external encoder.
EncoderCalls == {"preprocess_video", "add_watermark", "create_outro", "concat_videos"}

\* The calls that go to the storage service.
NetworkCalls == {"list", "download", "upload"}

IsCached(response) == "cached" \in DOMAIN response.body /\ response.body.cached

\* The request of job j was parsed: the handler holds a video URL.
HasVideoUrl(j) == job[j].video_url # NONE

\* The object job j published is the source video followed by an outro
\* built from that video's own stream parameters.
PublishedIntact(j) ==
    /\ job[j].output_key \in DOMAIN storage
    /\ storage[job[j].output_key] = Media(job[j].video_url, job[j].video_url)

\* Both jobs had begun before either returned.
Overlap(i, j) ==
    /\ job[i].pc # "idle" /\ job[j].pc # "idle"
    /\ i \notin job[j].doneBefore /\ j \notin job[i].doneBefore

(***************************************************************************)
(* C1.  With caching enabled, when a request for a videoUrl has completed  *)
(* successfully, a later request for the same videoUrl (no storage listing *)
(* of either raising) returns cached: true with the URL the first          *)
(* returned, and runs no encoder stage; the key the first job published    *)
(* under starts with the prefix the second one looks up.                   *)
(* Under Spec.                                                             *)
(***************************************************************************)
C1_SecondRequestIsCached ==
    \A i \in Jobs : \A j \in Jobs :
        ( /\ ~DISABLE_CACHE
          /\ i # j /\ Done(j) /\ i \in job[j].doneBefore
          /\ job[i].event.body.videoUrl = job[j].event.body.videoUrl
          /\ job[i].response.statusCode = 200
          /\ "list_raised" \notin job[i].trace \cup job[j].trace )
        => /\ IsCached(job[j].response)
           /\ job[j].response.body.url = job[i].response.body.url
           /\ job[j].trace \cap EncoderCalls = {}
           /\ ~IsCached(job[i].response)
                 => StartsWith(job[i].output_key,
                               LookupPrefix(OUTPUT_PREFIX,
                                            get_video_hash(job[j].video_url)))

(***************************************************************************)
(* C2.  A request whose URL has an extension outside SUPPORTED_FORMATS is  *)
(* answered 400 with no call to the storage service made and no temp       *)
(* artifact created, whether caching is enabled or not.                    *)
(* Under SpecRequest.                                                      *)
(***************************************************************************)
C2_UnsupportedExtensionRejectedFirst ==
    \A j \in Jobs :
        ( /\ Done(j) /\ HasVideoUrl(j)
          /\ Ext(job[j].video_url) # << >>
          /\ Ext(job[j].video_url) \notin SUPPORTED_FORMATS )
        => /\ job[j].response.statusCode = 400
           /\ job[j].trace \cap NetworkCalls = {}
           /\ job[j].touched = {}

(***************************************************************************)
(* C3.  Two request URLs of which one is the other with a character        *)
(* percent-encoded, or with the alias host in place of the canonical host, *)
(* get the same cache key.                                                 *)
(* Under SpecKey.                                                          *)
(***************************************************************************)
\* v is u with the "." at position i written as its escape %2E.
PercentEncodedAt(u, v, i) ==
    /\ u[i] = "."
    /\ v = SubSeq(u, 1, i - 1) \o <<"%", "2E">> \o SubSeq(u, i + 1, Len(u))

DifferOnlyInPercentEncoding(u, v) ==
    \/ \E i \in 1..Len(u) : PercentEncodedAt(u, v, i)
    \/ \E i \in 1..Len(v) : PercentEncodedAt(v, u, i)

\* u names the alias host where v names the canonical host.
AliasOf(u, v) ==
    \E rest \in {SubSeq(u, 3 + Len(ALIAS_HOST), Len(u))} :
        /\ u = <<"https:", "//">> \o ALIAS_HOST \o rest
        /\ v = <<"https:", "//">> \o CANONICAL_HOST \o rest

DifferOnlyInHostAlias(u, v) == AliasOf(u, v) \/ AliasOf(v, u)

C3_CacheKeyOfEquivalentUrls ==
    \A i \in Jobs : \A j \in Jobs :
        ( /\ HasVideoUrl(i) /\ HasVideoUrl(j)
          /\ \/ DifferOnlyInPercentEncoding(job[i].event.body.videoUrl,
                                            job[j].event.body.videoUrl)
             \/ DifferOnlyInHostAlias(job[i].event.body.videoUrl,
                                      job[j].event.body.videoUrl) )
        => get_video_hash(job[i].video_url) = get_video_hash(job[j].video_url)

(***************************************************************************)
(* C4.  A request whose body is present (a non-empty dict, or the text of  *)
(* a JSON object) and carries no videoUrl, or an empty one, is answered    *)
(* 400 with the message "Missing 'videoUrl' in request body", whatever     *)
(* isBase64Encoded is, and no stage runs.                                  *)
(* Under SpecRequest.                                                      *)
(***************************************************************************)
CarriesNoVideoUrl(event) ==
    /\ ~BodyIsFalsy(event.body)
    /\ event.body.json = "object"
    /\ ~event.body.hasVideoUrl \/ event.body.videoUrl = NONE

C4_MissingVideoUrlIs400 ==
    \A j \in Jobs :
        ( Done(j) /\ CarriesNoVideoUrl(job[j].event) )
        => /\ job[j].response.statusCode = 400
           /\ job[j].response.body.message = <<"Missing 'videoUrl' in request body">>
           /\ job[j].trace = {}

(***************************************************************************)
(* C5.  An input-validation failure (no body, a body that is no JSON or no *)
(* JSON object, no videoUrl, a videoUrl that is no URL, an unsupported     *)
(* extension) is answered 400, never 500; a stage that fails is answered   *)
(* 500.                                                                    *)
(* Under SpecRequest.                                                      *)
(***************************************************************************)
InvalidInput(j) ==
    LET event == job[j].event
    IN  \/ BodyIsFalsy(event.body)
        \/ event.body.json \in {"array", "invalid"}
        \/ CarriesNoVideoUrl(event)
        \/ HasVideoUrl(j) /\ ~HasNetloc(job[j].video_url)
        \/ HasVideoUrl(j) /\ Ext(job[j].video_url) \notin SUPPORTED_FORMATS

C5_StatusFollowsFailureClass ==
    \A j \in Jobs :
        Done(j) => /\ InvalidInput(j) => job[j].response.statusCode = 400
                   /\ job[j].injected => job[j].response.statusCode = 500

(***************************************************************************)
(* C6.  The response of every job that reached the pipeline carries a      *)
(* processingTime map with a total: with the keys download, watermark,     *)
(* outro, concat, upload and total on success, and with the durations of   *)
(* the stages completed before the failure on failure.                     *)
(* Under SpecRequest.                                                      *)
(***************************************************************************)
C6_ResponseCarriesDurations ==
    \A j \in Jobs :
        ( Done(j) /\ job[j].trace \cap {"download"} # {} )
        => /\ "processingTime" \in DOMAIN job[j].response.body
           /\ "total" \in job[j].response.body.processingTime
           /\ job[j].processing_times \subseteq job[j].response.body.processingTime
           /\ job[j].response.statusCode = 200
                 => {"download", "watermark", "outro", "concat", "upload", "total"}
                        \subseteq job[j].response.body.processingTime

(***************************************************************************)
(* C7.  With CLEANUP_TEMP_FILES, when a job has ended, in failure at any   *)
(* stage or in success, no temp file it created is left in the temp        *)
(* directory.                                                              *)
(* Under SpecRequest.                                                      *)
(***************************************************************************)
C7_NoTempArtifactLeft ==
    \A j \in Jobs :
        ( CLEANUP_TEMP_FILES /\ Done(j) ) => job[j].touched \cap DOMAIN fs = {}

(***************************************************************************)
(* C8.  Two jobs for different source URLs touch disjoint sets of temp     *)
(* paths.                                                                  *)
(* Under Spec.                                                             *)
(***************************************************************************)
C8_TempPathsDisjoint ==
    \A i \in Jobs : \A j \in Jobs :
        ( HasVideoUrl(i) /\ HasVideoUrl(j) /\ job[i].video_url # job[j].video_url )
        => job[i].touched \cap job[j].touched = {}

(***************************************************************************)
(* C9.  With CLEANUP_TEMP_FILES, of two overlapping jobs for one source    *)
(* URL, no call of which fails for a reason of its own, each ends with     *)
(* status 200 and its published object intact.                             *)
(* Under Spec.                                                             *)
(***************************************************************************)
C9_DuplicateJobsBenign ==
    \A i \in Jobs : \A j \in Jobs :
        ( /\ CLEANUP_TEMP_FILES
          /\ i # j /\ Done(j) /\ Overlap(i, j)
          /\ job[i].video_url = job[j].video_url
          /\ ~job[i].injected /\ ~job[j].injected )
        => /\ job[j].response.statusCode = 200
           /\ ~IsCached(job[j].response) => PublishedIntact(j)

(***************************************************************************)
(* C10.  No step of any job overwrites or deletes an object of the bucket: *)
(* every object stays as it is, a successful upload goes to a key the      *)
(* bucket did not hold, and a cache lookup writes nothing.                 *)
(* Under Spec.                                                             *)
(***************************************************************************)
Uploaded(j) ==
    /\ job[j].pc = "upload"
    /\ job'[j].pc = "done"
    /\ job'[j].response.statusCode = 200

C10_PublishedObjectsNeverMutated ==
    [][ /\ \A k \in DOMAIN storage :
               k \in DOMAIN storage' /\ storage'[k] = storage[k]
        /\ \A j \in Jobs :
               /\ Uploaded(j) => job[j].output_key \notin DOMAIN storage
               /\ ( job[j].pc = "check_processed_video" /\ job'[j] # job[j] )
                     => storage' = storage ]_vars

\* Two jobs for one URL have both published, beside the object the bucket
\* held before.
C10_Witness ==
    \E i \in Jobs : \E j \in Jobs :
        /\ i # j /\ Done(i) /\ Done(j)
        /\ job[i].video_url = job[j].video_url
        /\ job[i].response.statusCode = 200 /\ ~IsCached(job[i].response)
        /\ job[j].response.statusCode = 200 /\ ~IsCached(job[j].response)
        /\ {job[i].output_key, job[j].output_key, LegacyKey} \subseteq DOMAIN storage

(***************************************************************************)
(* Vocabulary of the properties about one step of a job.                   *)
(***************************************************************************)
\* The step is a step of job j.
Changed(j) == job'[j] # job[j]

\* The step puts an object under the output key of job j.
Publishes(j) ==
    /\ job[j].output_key \notin DOMAIN storage
    /\ job'[j].output_key \in DOMAIN storage'

\* The durations the handler records, one per timed stage that returned.
TimedStages == {"download", "preprocess", "watermark", "outro", "concat", "upload"}

(***************************************************************************)
(* C11.  A step in which a stage of a job fails (the job is answered 400   *)
(* or 500) ends the job and leaves the bucket as it is; a job that has     *)
(* ended makes no further step; and the bucket changes only by a job       *)
(* publishing under its own key, in a step before which the job had not    *)
(* failed and after which download, preprocessing, probing, watermark      *)
(* build, overlay, outro synthesis, concatenation and upload have all      *)
(* returned.                                                               *)
(* Under Spec.                                                             *)
(***************************************************************************)
C11_FailureAbortsAndPublishesNothing ==
    [][ /\ \A j \in Jobs :
               /\ ( Changed(j) /\ job'[j].response.statusCode \in {400, 500} )
                     => job'[j].pc = "done" /\ storage' = storage
               /\ job[j].pc = "done" => ~Changed(j)
               /\ Publishes(j)
                     => /\ job[j].response = NoResponse
                        /\ job'[j].response.statusCode = 200
                        /\ TimedStages \subseteq job'[j].processing_times
                        /\ {"get_video_info", "generate_watermark"}
                               \subseteq job'[j].trace
        /\ storage' # storage => \E j \in Jobs : Changed(j) /\ Publishes(j) ]_vars

\* Outro synthesis failed after the overlay had succeeded: the watermarked
\* clip is in the temp directory and nothing is published for the job.
C11_Witness ==
    \E j \in Jobs :
        /\ Done(j) /\ job[j].response.statusCode = 500
        /\ "watermark" \in job[j].processing_times
        /\ "outro" \notin job[j].processing_times
        /\ "create_outro" \in job[j].trace
        /\ job[j].trace \cap {"concat_videos", "upload"} = {}
        /\ watermarked_file(job[j].video_url) \in DOMAIN fs
        /\ job[j].output_key \notin DOMAIN storage

(***************************************************************************)
(* C12.  The position of a job only moves forward along the fixed order of *)
(* the handler's calls: every step of a job takes it to the next position  *)
(* of the order (from reception straight to download when no cache lookup  *)
(* is made) or ends it, so no position is entered twice and no call is     *)
(* made again; a job that has ended, in failure or success, never moves.   *)
(* Under Spec.                                                             *)
(***************************************************************************)
StageOrder ==
    << "idle", "check_processed_video", "download", "preprocess_video",
       "get_video_info", "generate_watermark", "add_watermark", "create_outro",
       "create_outro_overlay", "concat_videos", "upload", "done" >>

Rank(pc) == CHOOSE i \in 1..Len(StageOrder) : StageOrder[i] = pc

C12_FixedStageOrder ==
    [][ \A j \in Jobs :
            Changed(j) =>
                /\ job[j].pc # "done"
                /\ \/ job'[j].pc = "done"
                   \/ Rank(job'[j].pc) = Rank(job[j].pc) + 1
                   \/ job[j].pc = "idle" /\ job'[j].pc = "download" ]_vars

\* A job went through every position, the cache lookup included, and ended
\* in success.
C12_Witness ==
    \E j \in Jobs :
        /\ Done(j) /\ job[j].response.statusCode = 200
        /\ ~IsCached(job[j].response)
        /\ "list" \in job[j].trace
        /\ TimedStages \subseteq job[j].processing_times

(***************************************************************************)
(* C13.  When a job reaches outro synthesis, the main clip has been        *)
(* through exactly one encoder invocation since the download: the overlay  *)
(* call alone, with no separate scaling call before it.                    *)
(* Under SpecRequest.                                                      *)
(***************************************************************************)
C13_SingleEncodePass ==
    \A j \in Jobs :
        job[j].pc = "create_outro"
        => Cardinality(job[j].trace \cap {"preprocess_video", "add_watermark"}) = 1

(***************************************************************************)
(* C14.  The cache short-circuit.                                          *)
(***************************************************************************)
\* The bucket holds an object whose key starts with
\* {outputPrefix}/{cacheKey}_ for the URL of job j.
CachedObjectExists(j) ==
    \E k \in DOMAIN storage :
        StartsWith(k, <<OUTPUT_PREFIX, "/">>
                          \o get_video_hash(job[j].video_url) \o <<"_">>)

\* The step is the cache lookup of job j.
LookupStep(j) == job[j].pc = "check_processed_video" /\ Changed(j)

\* The step ends job j with cached: true, having downloaded, encoded,
\* uploaded and created nothing.
ShortCircuit(j) ==
    /\ job'[j].pc = "done" /\ job'[j].response.statusCode = 200
    /\ IsCached(job'[j].response)
    /\ job'[j].trace = {"list"} /\ job'[j].touched = {}
    /\ fs' = fs /\ storage' = storage

\* What C14 says apart from when the lookup hits: a lookup is made exactly
\* for the parsed requests of a handler with caching enabled; cached: true
\* is answered only by the short-circuit; with caching disabled a request
\* with a supported extension goes to the download.
CacheFlagDecides(j) ==
    /\ ( job[j].pc = "idle" /\ Changed(j) )
          => ( job'[j].pc = "check_processed_video"
                  <=> ~DISABLE_CACHE /\ job'[j].video_url # NONE )
    /\ ( Changed(j) /\ IsCached(job'[j].response) )
          => ~DISABLE_CACHE /\ LookupStep(j) /\ ShortCircuit(j)
    /\ DISABLE_CACHE => "list" \notin job'[j].trace
    /\ ( /\ DISABLE_CACHE /\ job[j].pc = "idle" /\ Changed(j)
         /\ job'[j].video_url # NONE
         /\ Ext(job'[j].video_url) \in SUPPORTED_FORMATS )
          => job'[j].pc = "download"

(***************************************************************************)
(* C14, as claimed.  The lookup of a job ends in the short-circuit exactly *)
(* when the bucket holds an object with the key prefix                     *)
(* {outputPrefix}/{cacheKey}_; the short-circuit downloads, encodes,       *)
(* uploads and creates nothing; with caching disabled no lookup is made    *)
(* and the pipeline runs.                                                  *)
(* Under Spec.                                                             *)
(***************************************************************************)
C14_ShortCircuitIffObjectExists ==
    [][ \A j \in Jobs :
            /\ LookupStep(j) => ( ShortCircuit(j) <=> CachedObjectExists(j) )
            /\ CacheFlagDecides(j) ]_vars

(***************************************************************************)
(* C14, amended.  The lookup of a job ends in the short-circuit exactly    *)
(* when the storage listing does not raise and the bucket holds an object  *)
(* with the key prefix {outputPrefix}/{cacheKey}_; the rest as claimed.    *)
(* Under Spec.                                                             *)
(***************************************************************************)
C14_ShortCircuitIffObjectListed ==
    [][ \A j \in Jobs :
            /\ LookupStep(j)
                  => ( ShortCircuit(j)
                          <=> /\ CachedObjectExists(j)
                              /\ "list_raised" \notin job'[j].trace )
            /\ CacheFlagDecides(j) ]_vars

\* One job was served from the cache, and another, whose listing raised
\* while the object was there, was not.
C14_Witness ==
    \E i \in Jobs : \E j \in Jobs :
        /\ Done(i) /\ IsCached(job[i].response) /\ job[i].trace = {"list"}
        /\ job[j].video_url = job[i].video_url
        /\ "list_raised" \in job[j].trace /\ "download" \in job[j].trace

(***************************************************************************)
(* C20.  The body of every response with status 400 or 500 has both a      *)
(* message field and an error field.                                       *)
(* Under SpecRequest.                                                      *)
(***************************************************************************)
C20_FailureBodyHasMessageAndError ==
    \A j \in Jobs :
        ( Done(j) /\ job[j].response.statusCode \in {400, 500} )
        => {"message", "error"} \subseteq DOMAIN job[j].response.body

(***************************************************************************)
(* Vocabulary of the properties about the media of a run.                  *)
(***************************************************************************)
\* The overlay is being encoded, or has been.
Overlaid == clip.pc \in {"overlay", "done"}

\* preprocess_video has run.
Bounded == clip.pc \notin {"none", "preprocess_video"}

\* The position of the watermark at second t of the clip.
Position(t) ==
    << OverlayX(t, clip.preprocessed.width, clip.w),
       OverlayY(t, clip.preprocessed.height, clip.watermark_height) >>

\* The resolution of a file.
Resolution(s) == <<s.width, s.height>>

\* Bands [minWidth, maxWidth] a deployment may configure.
WidthBands == { <<2, 1280>>, <<320, 1920>> }

\* The smallest even integer that is at least n/d.
EvenCeil(n, d) == 2 * ((n + 2 * d - 1) \div (2 * d))

(***************************************************************************)
(* C15.  At every second t of the clip, for every frame size and every     *)
(* watermark raster, the overlay offsets satisfy 0 <= x <= frameW - wmW    *)
(* and 0 <= y <= frameH - wmH.                                             *)
(* Under SpecMedia.                                                        *)
(***************************************************************************)
C15_WatermarkInsideFrame ==
    Overlaid =>
        /\ 0 <= clip.x /\ clip.x <= clip.preprocessed.width - clip.w
        /\ 0 <= clip.y
        /\ clip.y <= clip.preprocessed.height - clip.watermark_height

(***************************************************************************)
(* C16.  The position of the watermark at second t is its position at      *)
(* every other second of the same interval                                 *)
(* [k * POSITION_CHANGE_INTERVAL, (k + 1) * POSITION_CHANGE_INTERVAL).     *)
(* Under SpecMedia.                                                        *)
(***************************************************************************)
C16_PositionHeldWithinInterval ==
    clip.pc = "overlay" =>
        \A t \in 0..MaxT :
            ( t \div POSITION_CHANGE_INTERVAL = clip.t \div POSITION_CHANGE_INTERVAL )
            => Position(t) = <<clip.x, clip.y>>

(***************************************************************************)
(* C17.  Bounding the bounded resolution again gives the same resolution;  *)
(* the bounded width is even, the bounded height at most TARGET_HEIGHT,    *)
(* and the bounded width inside the configured band, whichever band is     *)
(* configured.                                                             *)
(* Under SpecMedia.                                                        *)
(***************************************************************************)
C17_BoundingIdempotentAndInBand ==
    Bounded =>
        /\ Resolution(preprocess_video(clip.preprocessed))
               = Resolution(clip.preprocessed)
        /\ clip.preprocessed.width % 2 = 0
        /\ clip.preprocessed.height <= TARGET_HEIGHT
        /\ \A band \in WidthBands :
               /\ band[1] <= clip.preprocessed.width
               /\ clip.preprocessed.width <= band[2]

(***************************************************************************)
(* C18.  A source whose height is at most TARGET_HEIGHT keeps its          *)
(* resolution; a higher source gets the height TARGET_HEIGHT and the width *)
(* width * TARGET_HEIGHT / height rounded up to an even integer.           *)
(* Under SpecMedia.                                                        *)
(***************************************************************************)
C18_RescaleOnlyAboveCeiling ==
    Bounded =>
        /\ clip.source.height <= TARGET_HEIGHT
              => Resolution(clip.preprocessed) = Resolution(clip.source)
        /\ clip.source.height > TARGET_HEIGHT
              => Resolution(clip.preprocessed)
                     = << EvenCeil(clip.source.width * TARGET_HEIGHT,
                                   clip.source.height),
                          TARGET_HEIGHT >>

C23_ListingErrorIsCacheMiss ==
    [][ \A j \in Jobs :
            /\ ( LookupStep(j) /\ "list_raised" \in job'[j].trace )
                  => /\ ~DISABLE_CACHE
                     /\ fs' = fs /\ storage' = storage
                     /\ IF Ext(job[j].video_url) \in SUPPORTED_FORMATS
                        THEN /\ job'[j].pc = "download"
                             /\ job'[j].response = NoResponse
                             /\ job'[j].output_key = OutputKey(j, job[j].video_url)
                        ELSE /\ job'[j].pc = "done"
                             /\ job'[j].response.statusCode = 400
            /\ "list_raised" \in job'[j].trace => ~IsCached(job'[j].response) ]_vars

\* The listing raised while the bucket held an object under the prefix, and
\* the job ran the pipeline and published.
C23_Witness ==
    \E j \in Jobs :
        /\ Done(j) /\ "list_raised" \in job[j].trace
        /\ LegacyKey \in DOMAIN storage
        /\ StartsWith(LegacyKey,
                      LookupPrefix(OUTPUT_PREFIX, get_video_hash(job[j].video_url)))
        /\ job[j].response.statusCode = 200
        /\ job[j].output_key \in DOMAIN storage

(***************************************************************************)
(* C21.  Unlinks that raise in the finally block do not change what a job  *)
(* returns, and do not keep the other temp files from being unlinked: a    *)
(* job ends with 500 and the text of its failed call exactly when one of   *)
(* its calls failed, and with 200 and the URL of what it published         *)
(* otherwise, whichever unlinks raise; and with CLEANUP_TEMP_FILES the     *)
(* only paths of temp_files left when the job has ended are those whose    *)
(* unlink raises.                                                          *)
(* Under SpecCleanup.                                                      *)
(***************************************************************************)
\* The texts of the errors the stages raise.
StageErrors ==
    { <<"download failed">>, <<"Command failed: preprocess">>,
      <<"Failed to get video info">>, <<"FileNotFoundError: watermark">>,
      <<"Command failed: add_watermark">>, <<"Command failed: outro">>,
      <<"Command failed: outro overlay">>, <<"Command failed: concat">>,
      <<"upload failed">> }

C21_CleanupErrorsNeverEscalate ==
    \A j \in Jobs :
        Done(j) =>
            /\ CLEANUP_TEMP_FILES
                  => Range(job[j].temp_files) \cap DOMAIN fs
                         \subseteq job[j].unlink_fails
            /\ job[j].response.statusCode = IF job[j].injected THEN 500 ELSE 200
            /\ job[j].response.statusCode = 500
                  => /\ job[j].response.body.message = <<"Processing failed">>
                     /\ job[j].response.body.error \in StageErrors
                     /\ job[j].output_key \notin DOMAIN storage
            /\ ( job[j].response.statusCode = 200 /\ ~IsCached(job[j].response) )
                  => /\ job[j].output_key \in DOMAIN storage
                     /\ job[j].response.body.url
                            = ObjectUrl(OUTPUT_BUCKET, job[j].output_key)

\* A job has ended; the unlink of one of its temp files raised and the file
\* is still there, and a temp file later in temp_files, which the job had
\* created, is gone.
C21_Witness ==
    \E j \in Jobs :
        /\ Done(j) /\ CLEANUP_TEMP_FILES
        /\ \E i \in 1..Len(job[j].temp_files) :
           \E k \in 1..Len(job[j].temp_files) :
               /\ i < k
               /\ job[j].temp_files[i] \in job[j].unlink_fails \cap DOMAIN fs
               /\ job[j].temp_files[k] \in job[j].touched
               /\ job[j].temp_files[k] \notin DOMAIN fs

(***************************************************************************)
(* C22.  The outro and the watermarked main clip have the same kinds of    *)
(* streams (both with an audio stream or both without) and the same video  *)
(* codec, pixel format and frame rate and, for the audio, the same codec,  *)
(* sample rate and channel layout, whatever the source's audio is.         *)
(* Under SpecMedia.                                                        *)
(***************************************************************************)
C22_OutroCompatibleWithMainClip ==
    clip.pc = "done" =>
        /\ clip.outro.has_audio = clip.watermarked.has_audio
        /\ clip.outro.video_codec = clip.watermarked.codec_name
        /\ clip.outro.pix_fmt = clip.watermarked.pix_fmt
        /\ clip.outro.framerate = EvalRate(clip.watermarked.r_frame_rate)
        /\ <<clip.outro.width, clip.outro.height>> = Resolution(clip.watermarked)
        /\ clip.watermarked.has_audio
              => /\ clip.outro.audio_codec = clip.watermarked.audio_codec
                 /\ clip.outro.sample_rate = clip.watermarked.sample_rate
                 /\ clip.outro.channel_layout = clip.watermarked.channel_layout

=============================================================================
